---- MODULE Spec2Model ----
(***************************************************************************)
(* Model of src/src/App.tsx: the App component's state (useState hooks),   *)
(* its asynchronous operations (loadEvents, loadFavorites, toggleFavorite) *)
(* with every await as a suspension point, the filter engine               *)
(* (filterEvents) and the selection / random-pick handlers.                *)
(*                                                                         *)
(* Text is a sequence of one-character strings so that toLowerCase,        *)
(* String.includes and Number() are computed, not assumed.  Costs are      *)
(* whole currency units and durations whole hours.                         *)
(***************************************************************************)
EXTENDS Integers, Sequences, FiniteSets, Bags, TLC

(***************************************************************************)
(* Bounds of the model.                                                    *)
(***************************************************************************)
\* toggleFavorite calls that may be suspended at an await at the same time
MaxToggles == 2
\* loadFavorites calls that may be suspended at an await at the same time
MaxFavLoads == 1
\* favorites.create calls the persistence collaborator accepts in one run
MaxCreates == 2

(***************************************************************************)
(* JavaScript values and text.                                             *)
(***************************************************************************)
\* a raw field value returned by the record store
Num(n) == [t |-> "number", v |-> n, s |-> <<>>]
Txt(s) == [t |-> "string", v |-> 0, s |-> s]
Null == [t |-> "null", v |-> 0, s |-> <<>>]
Undefined == [t |-> "undefined", v |-> 0, s |-> <<>>]

\* the result of Number(x): a number or NaN
NaN == [nan |-> TRUE, v |-> 0]
Finite(n) == [nan |-> FALSE, v |-> n]

DigitChars == {"0", "1", "2", "3", "4", "5", "6", "7", "8", "9"}
DigitValue == [c \in DigitChars |->
                 CASE c = "0" -> 0 [] c = "1" -> 1 [] c = "2" -> 2 [] c = "3" -> 3
                   [] c = "4" -> 4 [] c = "5" -> 5 [] c = "6" -> 6 [] c = "7" -> 7
                   [] c = "8" -> 8 [] OTHER -> 9]
IsDigit(c) == c \in DigitChars
DigitVal(c) == DigitValue[c]

\* String.prototype.trim, for the blank character
RECURSIVE TrimLeft(_)
TrimLeft(s) == IF s # <<>> /\ Head(s) = " " THEN TrimLeft(Tail(s)) ELSE s
RECURSIVE TrimRight(_)
TrimRight(s) ==
    IF s # <<>> /\ s[Len(s)] = " " THEN TrimRight(SubSeq(s, 1, Len(s) - 1)) ELSE s
Trim(s) == TrimRight(TrimLeft(s))

RECURSIVE DecimalValue(_)
DecimalValue(s) ==
    IF s = <<>> THEN 0
    ELSE 10 * DecimalValue(SubSeq(s, 1, Len(s) - 1)) + DigitVal(s[Len(s)])

\* StringToNumber: blank text is 0, a decimal literal its value, else NaN
StringToNumber(s) ==
    LET t == Trim(s) IN
    IF t = <<>> THEN Finite(0)
    ELSE IF \A i \in 1..Len(t) : IsDigit(t[i]) THEN Finite(DecimalValue(t))
    ELSE NaN

\* Number(x) as filterEvents applies it to costPerPerson and durationHours
NumberOf(x) ==
    CASE x.t = "number" -> Finite(x.v)
      [] x.t = "string" -> StringToNumber(x.s)
      [] x.t = "null" -> Finite(0)
      [] OTHER -> NaN

\* a >= b and a <= b of JavaScript: false whenever an operand is NaN
Ge(a, b) == ~a.nan /\ a.v >= b
Le(a, b) == ~a.nan /\ a.v <= b

Upper == <<"A", "B", "C", "D", "E", "F", "G", "H", "I", "J", "K", "L", "M",
           "N", "O", "P", "Q", "R", "S", "T", "U", "V", "W", "X", "Y", "Z">>
Lower == <<"a", "b", "c", "d", "e", "f", "g", "h", "i", "j", "k", "l", "m",
           "n", "o", "p", "q", "r", "s", "t", "u", "v", "w", "x", "y", "z">>
LowerOf == [c \in {Upper[i] : i \in 1..26} |-> Lower[CHOOSE i \in 1..26 : Upper[i] = c]]
LowerChar(c) == IF c \in DOMAIN LowerOf THEN LowerOf[c] ELSE c
\* String.prototype.toLowerCase
ToLowerCase(s) == [i \in 1..Len(s) |-> LowerChar(s[i])]

\* String.prototype.includes: q occurs in s as a contiguous run
Includes(s, q) ==
    \E i \in 0..(Len(s) - Len(q)) : \A j \in 1..Len(q) : s[i + j] = q[j]


(***************************************************************************)
(* The record store's events collection.                                   *)
(***************************************************************************)
Cities == {"chicago", "minneapolis"}

RawEvent(id, name, category, description, city, dur, cost) ==
    [id |-> id, name |-> name, category |-> category, description |-> description,
     city |-> city, duration_hours |-> dur, cost_per_person |-> cost]

Fun == <<"F", "u", "n">>
Tour == <<"T", "o", "u", "r">>
Food == <<"F", "o", "o", "d">>
Park == <<"P", "a", "r", "k">>

\* rows of the events collection, listed in ascending order of name
RawAxe == RawEvent("c1", <<"A", "x", "e">>, Fun, <<"T", "h", "r", "o", "w">>,
                   "chicago", Num(2), Num(10))
RawBoat == RawEvent("c2", <<"B", "o", "a", "t">>, Tour,
                    <<"K", "a", "y", "a", "k", "i", "n", "g">>,
                    "chicago", Num(1), Num(90))
RawCafe == RawEvent("c3", <<"C", "a", "f", "e">>, Food, <<"E", "a", "t">>,
                    "chicago", Txt(<<>>), Null)
RawDart == RawEvent("c4", <<"D", "a", "r", "t">>, Fun, <<"A", "i", "m">>,
                    "chicago", Undefined, Txt(<<"a", "b", "c">>))
RawGolf == RawEvent("c5", <<"G", "o", "l", "f">>, Tour, <<"P", "u", "t", "t">>,
                    "chicago", Txt(<<" ", "2", " ">>), Txt(<<"5", "0">>))
RawZoo == RawEvent("m1", <<"Z", "o", "o">>, Park, <<"W", "a", "l", "k">>,
                   "minneapolis", Num(3), Num(20))

ChicagoRows == <<RawAxe, RawBoat, RawCafe, RawDart, RawGolf>>

\* the subsequences of a sequence, each keeping the order of the rows
RECURSIVE SubSeqs(_)
SubSeqs(s) ==
    IF s = <<>> THEN {<<>>}
    ELSE LET rest == SubSeqs(Tail(s)) IN
         rest \cup {<<Head(s)>> \o r : r \in rest}

\* the events collection the application runs against, by city
DefaultDb == [c \in Cities |-> IF c = "chicago" THEN <<RawAxe, RawBoat>> ELSE <<RawZoo>>]
\* the same with any selection of the Chicago rows, malformed numbers included
AnyDbs == {[c \in Cities |-> IF c = "chicago" THEN rows ELSE <<RawZoo>>] :
              rows \in SubSeqs(ChicagoRows)}

(***************************************************************************)
(* State.                                                                  *)
(***************************************************************************)
None == "none"
Users == {"u1", "u2"}

VARIABLES
    user,               \* useState(null): the signed-in user's id, or None
    loading,            \* useState(true): the auth provider is still loading
    selectedCity,       \* useState('chicago')
    searchQuery,        \* useState('')
    events,             \* useState([]): the catalog store
    filteredEvents,     \* useState([]): the visible set
    selectedEvent,      \* useState(null): the open event, or None
    favorites,          \* useState(new Set()): the favorites store
    selectedCategories, \* useState([])
    costRange,          \* useState([0, 100])
    durationRange,      \* useState([0, 5])
    dbEvents,           \* record store: the events collection, by city
    favRecords,         \* record store: the favorites collection
    nextId,             \* record store: the id the next created record gets
    eventLoads,         \* cities with a loadEvents call suspended at its await
    favLoads,           \* loadFavorites calls suspended at their await
    toggles,            \* toggleFavorite calls suspended at an await
    last                \* history: the operation that finished in the last step

vars == <<user, loading, selectedCity, searchQuery, events, filteredEvents,
          selectedEvent, favorites, selectedCategories, costRange, durationRange,
          dbEvents, favRecords, nextId, eventLoads, favLoads, toggles, last>>

filterVars == <<searchQuery, selectedCategories, costRange, durationRange>>
storeVars == <<dbEvents, favRecords, nextId>>

\* the defaults of the filter state
DefaultCostMin == 0
DefaultCostMax == 100
DefaultDurationMin == 0
DefaultDurationMax == 5

(***************************************************************************)
(* loadEvents: the snake_case to camelCase conversion.                     *)
(***************************************************************************)
FormatEvent(raw) ==
    [id |-> raw.id, name |-> raw.name, category |-> raw.category,
     description |-> raw.description, city |-> raw.city,
     durationHours |-> raw.duration_hours, costPerPerson |-> raw.cost_per_person]

FormatEvents(result) == [i \in 1..Len(result) |-> FormatEvent(result[i])]

(***************************************************************************)
(* filterEvents: the four predicates, applied in the order of the code;     *)
(* SelectSeq is Array.prototype.filter.                                    *)
(***************************************************************************)
\* Array.prototype.includes
ArrayIncludes(arr, x) == \E i \in 1..Len(arr) : arr[i] = x

\* a text predicate that compares without lower-casing the event's texts
MatchesSearchCaseSensitive(event, query) ==
    \/ Includes(event.name, ToLowerCase(query))
    \/ Includes(event.description, ToLowerCase(query))
    \/ Includes(event.category, ToLowerCase(query))

MatchesSearch(event, query) ==
    \/ Includes(ToLowerCase(event.name), ToLowerCase(query))
    \/ Includes(ToLowerCase(event.description), ToLowerCase(query))
    \/ Includes(ToLowerCase(event.category), ToLowerCase(query))

SearchFilter(evs, query) ==
    IF query # <<>>
    THEN LET Keep(event) == MatchesSearch(event, query) IN SelectSeq(evs, Keep)
    ELSE evs

\* a category predicate that is applied to an empty selection too
CategoryFilterAlways(evs, cats) ==
    LET Keep(event) == ArrayIncludes(cats, event.category) IN SelectSeq(evs, Keep)

CategoryFilter(evs, cats) ==
    IF Len(cats) > 0
    THEN LET Keep(event) == ArrayIncludes(cats, event.category) IN SelectSeq(evs, Keep)
    ELSE evs

\* a cost predicate whose bounds are exclusive
PassesCostExclusive(event, range) ==
    LET cost == NumberOf(event.costPerPerson) IN
    ~cost.nan /\ cost.v > range[1] /\ cost.v < range[2]

PassesCost(event, range) ==
    LET cost == NumberOf(event.costPerPerson) IN
    Ge(cost, range[1]) /\ Le(cost, range[2])

CostFilter(evs, range) ==
    LET Keep(event) == PassesCost(event, range) IN SelectSeq(evs, Keep)

\* a duration predicate whose upper test is written with >=
PassesDurationAbove(event, range) ==
    LET duration == NumberOf(event.durationHours) IN
    Ge(duration, range[1]) /\ Ge(duration, range[2])

PassesDuration(event, range) ==
    LET duration == NumberOf(event.durationHours) IN
    Ge(duration, range[1]) /\ Le(duration, range[2])

DurationFilter(evs, range) ==
    LET Keep(event) == PassesDuration(event, range) IN SelectSeq(evs, Keep)

\* a filterEvents that hands its result over in reverse order
FilterEventsReversed(evs, query, cats, cost, dur) ==
    LET kept == DurationFilter(CostFilter(CategoryFilter(SearchFilter(evs, query), cats),
                                          cost), dur)
    IN [i \in 1..Len(kept) |-> kept[Len(kept) + 1 - i]]

\* the value filterEvents passes to setFilteredEvents
FilterEvents(evs, query, cats, cost, dur) ==
    DurationFilter(CostFilter(CategoryFilter(SearchFilter(evs, query), cats), cost), dur)

\* categories computed from the visible set in place of the catalog
CategoriesOfVisible(evs) == {filteredEvents[i].category : i \in 1..Len(filteredEvents)}

\* const categories = [...new Set(events.map(e => e.category))]
Categories(evs) == {evs[i].category : i \in 1..Len(evs)}

(***************************************************************************)
(* Initial state: the useState initial values, an empty favorites          *)
(* collection, nothing in flight.                                          *)
(***************************************************************************)
NoOp == [op |-> "none"]

InitApp ==
    /\ user = None
    /\ loading = TRUE
    /\ selectedCity = "chicago"
    /\ searchQuery = <<>>
    /\ events = <<>>
    /\ filteredEvents = <<>>
    /\ selectedEvent = None
    /\ favorites = {}
    /\ selectedCategories = <<>>
    /\ costRange = <<DefaultCostMin, DefaultCostMax>>
    /\ durationRange = <<DefaultDurationMin, DefaultDurationMax>>
    /\ favRecords = {}
    /\ nextId = 1
    /\ eventLoads = {}
    /\ favLoads = EmptyBag
    /\ toggles = EmptyBag
    /\ last = NoOp

Init == InitApp /\ dbEvents = DefaultDb

(***************************************************************************)
(* Helpers shared by the actions.                                          *)
(***************************************************************************)
\* the signed-in page is rendered (the early returns of lines 227 and 238)
Rendered == user # None /\ ~loading

\* a bag of suspended calls with one call added, removed, or moved on
Add(bag, x) == bag (+) SetToBag({x})
Drop(bag, x) == bag (-) SetToBag({x})
Move(bag, x, y) == Add(Drop(bag, x), y)

\* history: a suspended toggle stops counting as run on its own
Interrupt(t) == [t EXCEPT !.iso = FALSE, !.chain = FALSE, !.favs0 = {}, !.n0 = 0,
                          !.favs00 = {}, !.n00 = 0]
Interrupted(ts) == BagOfAll(Interrupt, ts)

\* history kept by every step that is not a step of a toggle
Other(l) == last' = l /\ toggles' = Interrupted(toggles)

\* history: the component's catalog, favorites, filter state, visible set and
\* open event as an operation finds them
Snapshot ==
    [events |-> events, favorites |-> favorites, filter |-> filterVars,
     filteredEvents |-> filteredEvents, selectedEvent |-> selectedEvent]

\* nothing is suspended at an await
Quiescent == eventLoads = {} /\ favLoads = EmptyBag /\ toggles = EmptyBag

\* a load effect that tests the user only
LoadEffectNoLoadingTest(u, l, c) ==
    IF u = None
    THEN UNCHANGED <<eventLoads, favLoads>>
    ELSE /\ eventLoads' = eventLoads \cup {c}
         /\ favLoads' = Add(favLoads, [user |-> u, read |-> FALSE, result |-> {}])

\* the load effect (lines 215-220), run after a render with user u, loading l, city c
LoadEffect(u, l, c) ==
    IF u = None \/ l
    THEN UNCHANGED <<eventLoads, favLoads>>
    ELSE /\ eventLoads' = eventLoads \cup {c}
         /\ favLoads' = Add(favLoads, [user |-> u, read |-> FALSE, result |-> {}])

\* the effect can start its loadFavorites call within the model's bound
CanLoad(u, l) == (u # None /\ ~l) => BagCardinality(favLoads) < MaxFavLoads

\* the filter effect (lines 223-225), run after a render that changed its inputs
FilterEffect ==
    filteredEvents' =
        FilterEvents(events', searchQuery', selectedCategories', costRange', durationRange')

(***************************************************************************)
(* Auth and city.                                                          *)
(***************************************************************************)
\* the onAuthStateChanged callback, then the load effect
AuthStateChanged(u, l) ==
    /\ <<u, l>> # <<user, loading>>
    /\ CanLoad(u, l)
    /\ user' = u
    /\ loading' = l
    /\ LoadEffect(u, l, selectedCity)
    /\ Other(NoOp)
    /\ UNCHANGED <<selectedCity, events, filteredEvents, selectedEvent, favorites,
                   filterVars, storeVars>>

\* a city button's onClick, then the load effect
SetSelectedCity(c) ==
    /\ Rendered
    /\ c # selectedCity
    /\ CanLoad(user, loading)
    /\ selectedCity' = c
    /\ LoadEffect(user, loading, c)
    /\ Other(NoOp)
    /\ UNCHANGED <<user, loading, events, filteredEvents, selectedEvent, favorites,
                   filterVars, storeVars>>

(***************************************************************************)
(* loadEvents: the continuation after await events.list.  The collection   *)
(* is constant, so two suspended calls for one city are interchangeable    *)
(* and eventLoads is a set.                                                *)
(***************************************************************************)
\* events.list resolves under a filter effect whose dependency list lacks events
LoadEventsDoneNoFilter(c) ==
    /\ c \in eventLoads
    /\ eventLoads' = eventLoads \ {c}
    /\ events' = FormatEvents(dbEvents[c])
    /\ Other([op |-> "eventsLoaded", city |-> c])
    /\ UNCHANGED <<user, loading, selectedCity, filteredEvents, selectedEvent,
                   favorites, filterVars, storeVars, favLoads>>

\* events.list resolves: setEvents, then the filter effect
LoadEventsDone(c) ==
    /\ c \in eventLoads
    /\ eventLoads' = eventLoads \ {c}
    /\ events' = FormatEvents(dbEvents[c])
    /\ UNCHANGED filterVars
    /\ FilterEffect
    /\ Other([op |-> "eventsLoaded", city |-> c])
    /\ UNCHANGED <<user, loading, selectedCity, selectedEvent, favorites, storeVars,
                   favLoads>>

\* a catch block that clears the catalog store
LoadEventsFailClears(c) ==
    /\ c \in eventLoads
    /\ eventLoads' = eventLoads \ {c}
    /\ events' = <<>>
    /\ Other([op |-> "eventsFailed", city |-> c, before |-> events])
    /\ UNCHANGED <<user, loading, selectedCity, filteredEvents, selectedEvent,
                   favorites, filterVars, storeVars, favLoads>>

\* events.list rejects: the catch block
LoadEventsFail(c) ==
    /\ c \in eventLoads
    /\ eventLoads' = eventLoads \ {c}
    /\ Other([op |-> "eventsFailed", city |-> c, before |-> events])
    /\ UNCHANGED <<user, loading, selectedCity, events, filteredEvents, selectedEvent,
                   favorites, filterVars, storeVars, favLoads>>

(***************************************************************************)
(* loadFavorites: favorites.list runs in the store, then the continuation. *)
(***************************************************************************)
FavoritesOf(u) == {r.eventId : r \in {x \in favRecords : x.userId = u}}

\* the store evaluates favorites.list({userId})
FavListRead(f) ==
    /\ f \in BagToSet(favLoads)
    /\ ~f.read
    /\ favLoads' = Move(favLoads, f,
                        [user |-> f.user, read |-> TRUE, result |-> FavoritesOf(f.user)])
    /\ Other(NoOp)
    /\ UNCHANGED <<user, loading, selectedCity, events, filteredEvents, selectedEvent,
                   favorites, filterVars, storeVars, eventLoads>>

\* favorites.list resolves: setFavorites(new Set(...))
LoadFavoritesDone(f) ==
    /\ f \in BagToSet(favLoads)
    /\ f.read
    /\ favorites' = f.result
    /\ favLoads' = Drop(favLoads, f)
    /\ Other([op |-> "favoritesLoaded", user |-> f.user])
    /\ UNCHANGED <<user, loading, selectedCity, events, filteredEvents, selectedEvent,
                   filterVars, storeVars, eventLoads>>

\* favorites.list rejects: the catch block
LoadFavoritesFail(f) ==
    /\ f \in BagToSet(favLoads)
    /\ ~f.read
    /\ favLoads' = Drop(favLoads, f)
    /\ Other([op |-> "favoritesFailed", user |-> f.user])
    /\ UNCHANGED <<user, loading, selectedCity, events, filteredEvents, selectedEvent,
                   favorites, filterVars, storeVars, eventLoads>>

(***************************************************************************)
(* toggleFavorite: the synchronous prefix, then one step per await.        *)
(* favorites.create and favorites.delete run in the store (Exec) before    *)
(* their promise resolves (Resp).                                          *)
(***************************************************************************)
\* the ids of the events that carry a favorite button (cards, and the dialog)
Shown == {filteredEvents[i].id : i \in 1..Len(filteredEvents)}
            \cup ({selectedEvent} \ {None})

AllIds == UNION {{dbEvents[c][i].id : i \in 1..Len(dbEvents[c])} : c \in Cities}

\* the favorite records favorites.list({userId, eventId}) returns
Matching(u, e) == {r \in favRecords : r.userId = u /\ r.eventId = e}

\* history: what a finished toggle did
Summary(t, ok, failedAt, creates, deletes) ==
    [op |-> "toggleDone", user |-> t.user, eventId |-> t.eventId, member |-> t.member,
     ok |-> ok, failedAt |-> failedAt, creates |-> creates, deletes |-> deletes,
     iso |-> t.iso, chain |-> t.chain, favs0 |-> t.favs0, n0 |-> t.n0,
     favs00 |-> t.favs00, n00 |-> t.n00,
     pre |-> favorites, pending |-> BagCardinality(toggles)]

\* history: the toggle starts right after an add of the same event that ran on its own
Chained(e) ==
    /\ last.op = "toggleDone"
    /\ last.iso /\ last.ok /\ ~last.member
    /\ last.user = user /\ last.eventId = e

\* a toggleFavorite without the test of line 175, reading user?.id: the create
\* is issued with no user id
ToggleNoUserCreates(e) ==
    /\ user = None
    /\ e \in AllIds
    /\ toggles' = Add(Interrupted(toggles),
            [user |-> None, eventId |-> e, member |-> FALSE, pc |-> "create",
             target |-> 0, iso |-> FALSE, chain |-> FALSE, favs0 |-> {}, n0 |-> 0,
             favs00 |-> {}, n00 |-> 0])
    /\ last' = [op |-> "toggleNoUser", eventId |-> e, before |-> favorites,
                pending |-> BagCardinality(toggles), records |-> favRecords]
    /\ UNCHANGED <<user, loading, selectedCity, events, filteredEvents, selectedEvent,
                   favorites, filterVars, storeVars, eventLoads, favLoads>>

\* line 175: if (!user) return
ToggleNoUser(e) ==
    /\ user = None
    /\ e \in AllIds
    /\ Other([op |-> "toggleNoUser", eventId |-> e, before |-> favorites,
              pending |-> BagCardinality(toggles), records |-> favRecords])
    /\ UNCHANGED <<user, loading, selectedCity, events, filteredEvents, selectedEvent,
                   favorites, filterVars, storeVars, eventLoads, favLoads>>

\* lines 178-181 and 191-197: the branch on favorites.has, up to the first await
ToggleFavorite(e) ==
    /\ Rendered
    /\ e \in Shown
    /\ BagCardinality(toggles) < MaxToggles
    /\ toggles' = Add(Interrupted(toggles),
            [user |-> user, eventId |-> e, member |-> e \in favorites,
             pc |-> IF e \in favorites THEN "list" ELSE "create",
             target |-> 0,
             iso |-> Quiescent,
             chain |-> Quiescent /\ Chained(e),
             favs0 |-> IF Quiescent THEN favorites ELSE {},
             n0 |-> IF Quiescent THEN Cardinality(favRecords) ELSE 0,
             favs00 |-> IF Quiescent /\ Chained(e) THEN last.favs0 ELSE {},
             n00 |-> IF Quiescent /\ Chained(e) THEN last.n0 ELSE 0])
    /\ last' = NoOp
    /\ UNCHANGED <<user, loading, selectedCity, events, filteredEvents, selectedEvent,
                   favorites, filterVars, storeVars, eventLoads, favLoads>>

\* favorites.list resolves with a record: favorites.delete(favoriteRecord[0].id) starts
ToggleListFound(t) ==
    /\ t \in BagToSet(toggles)
    /\ t.pc = "list"
    /\ \E r \in Matching(t.user, t.eventId) :
          toggles' = Move(toggles, t, [t EXCEPT !.pc = "delete", !.target = r.id])
    /\ last' = NoOp
    /\ UNCHANGED <<user, loading, selectedCity, events, filteredEvents, selectedEvent,
                   favorites, filterVars, storeVars, eventLoads, favLoads>>

\* favorites.list resolves empty: no delete, the id leaves the set (lines 183-190)
ToggleListEmpty(t) ==
    /\ t \in BagToSet(toggles)
    /\ t.pc = "list"
    /\ Matching(t.user, t.eventId) = {}
    /\ favorites' = favorites \ {t.eventId}
    /\ toggles' = Drop(toggles, t)
    /\ last' = Summary(t, TRUE, "none", 0, 0)
    /\ UNCHANGED <<user, loading, selectedCity, events, filteredEvents, selectedEvent,
                   filterVars, storeVars, eventLoads, favLoads>>

\* favorites.list rejects: the catch block
ToggleListFail(t) ==
    /\ t \in BagToSet(toggles)
    /\ t.pc = "list"
    /\ toggles' = Drop(toggles, t)
    /\ last' = Summary(t, FALSE, "list", 0, 0)
    /\ UNCHANGED <<user, loading, selectedCity, events, filteredEvents, selectedEvent,
                   favorites, filterVars, storeVars, eventLoads, favLoads>>

\* the store deletes the record
ToggleDeleteExec(t) ==
    /\ t \in BagToSet(toggles)
    /\ t.pc = "delete"
    /\ \E r \in favRecords : r.id = t.target
    /\ favRecords' = {r \in favRecords : r.id # t.target}
    /\ toggles' = Move(toggles, t, [t EXCEPT !.pc = "deleted"])
    /\ last' = NoOp
    /\ UNCHANGED <<user, loading, selectedCity, events, filteredEvents, selectedEvent,
                   favorites, filterVars, dbEvents, nextId, eventLoads, favLoads>>

\* a catch block that leaves an eager removal from the set in place
ToggleDeleteFailEvicts(t) ==
    /\ t \in BagToSet(toggles)
    /\ t.pc = "delete"
    /\ favorites' = favorites \ {t.eventId}
    /\ toggles' = Drop(toggles, t)
    /\ last' = Summary(t, FALSE,
                       IF \E r \in favRecords : r.id = t.target
                       THEN "delete" ELSE "deleteMissing", 0, 1)
    /\ UNCHANGED <<user, loading, selectedCity, events, filteredEvents, selectedEvent,
                   filterVars, storeVars, eventLoads, favLoads>>

\* favorites.delete rejects (WriteError; always when the record is gone): the catch block
ToggleDeleteFail(t) ==
    /\ t \in BagToSet(toggles)
    /\ t.pc = "delete"
    /\ toggles' = Drop(toggles, t)
    /\ last' = Summary(t, FALSE,
                       IF \E r \in favRecords : r.id = t.target
                       THEN "delete" ELSE "deleteMissing", 0, 1)
    /\ UNCHANGED <<user, loading, selectedCity, events, filteredEvents, selectedEvent,
                   favorites, filterVars, storeVars, eventLoads, favLoads>>

\* a continuation that forgets newSet.delete(eventId)
ToggleDeleteRespKeeps(t) ==
    /\ t \in BagToSet(toggles)
    /\ t.pc = "deleted"
    /\ toggles' = Drop(toggles, t)
    /\ last' = Summary(t, TRUE, "none", 0, 1)
    /\ UNCHANGED <<user, loading, selectedCity, events, filteredEvents, selectedEvent,
                   favorites, filterVars, storeVars, eventLoads, favLoads>>

\* favorites.delete resolves: setFavorites(prev => prev without eventId)
ToggleDeleteResp(t) ==
    /\ t \in BagToSet(toggles)
    /\ t.pc = "deleted"
    /\ favorites' = favorites \ {t.eventId}
    /\ toggles' = Drop(toggles, t)
    /\ last' = Summary(t, TRUE, "none", 0, 1)
    /\ UNCHANGED <<user, loading, selectedCity, events, filteredEvents, selectedEvent,
                   filterVars, storeVars, eventLoads, favLoads>>

\* the store creates the record
ToggleCreateExec(t) ==
    /\ t \in BagToSet(toggles)
    /\ t.pc = "create"
    /\ nextId <= MaxCreates
    /\ favRecords' = favRecords \cup
          {[id |-> nextId, userId |-> t.user, eventId |-> t.eventId]}
    /\ nextId' = nextId + 1
    /\ toggles' = Move(toggles, t, [t EXCEPT !.pc = "created"])
    /\ last' = NoOp
    /\ UNCHANGED <<user, loading, selectedCity, events, filteredEvents, selectedEvent,
                   favorites, filterVars, dbEvents, eventLoads, favLoads>>

\* favorites.create rejects (WriteError): the catch block
ToggleCreateFail(t) ==
    /\ t \in BagToSet(toggles)
    /\ t.pc = "create"
    /\ toggles' = Drop(toggles, t)
    /\ last' = Summary(t, FALSE, "create", 1, 0)
    /\ UNCHANGED <<user, loading, selectedCity, events, filteredEvents, selectedEvent,
                   favorites, filterVars, storeVars, eventLoads, favLoads>>

\* favorites.create resolves: setFavorites(prev => new Set([...prev, eventId]))
ToggleCreateResp(t) ==
    /\ t \in BagToSet(toggles)
    /\ t.pc = "created"
    /\ favorites' = favorites \cup {t.eventId}
    /\ toggles' = Drop(toggles, t)
    /\ last' = Summary(t, TRUE, "none", 1, 0)
    /\ UNCHANGED <<user, loading, selectedCity, events, filteredEvents, selectedEvent,
                   filterVars, storeVars, eventLoads, favLoads>>

(***************************************************************************)
(* Filter state handlers, each followed by the filter effect.              *)
(***************************************************************************)
\* the search box's onChange
SetSearchQuery(q) ==
    /\ Rendered
    /\ q # searchQuery
    /\ searchQuery' = q
    /\ UNCHANGED <<events, selectedCategories, costRange, durationRange>>
    /\ FilterEffect
    /\ Other(NoOp)
    /\ UNCHANGED <<user, loading, selectedCity, selectedEvent, favorites, storeVars,
                   eventLoads, favLoads>>

\* a category checkbox's onCheckedChange (lines 361-367)
CheckCategory(category) ==
    /\ Rendered
    /\ category \in Categories(events)
    /\ selectedCategories' =
          IF ~ArrayIncludes(selectedCategories, category)
          THEN Append(selectedCategories, category)
          ELSE LET Keep(c) == c # category IN SelectSeq(selectedCategories, Keep)
    /\ UNCHANGED <<events, searchQuery, costRange, durationRange>>
    /\ FilterEffect
    /\ Other(NoOp)
    /\ UNCHANGED <<user, loading, selectedCity, selectedEvent, favorites, storeVars,
                   eventLoads, favLoads>>

\* the cost slider's onValueChange
SetCostRange(r) ==
    /\ Rendered
    /\ r # costRange
    /\ costRange' = r
    /\ UNCHANGED <<events, searchQuery, selectedCategories, durationRange>>
    /\ FilterEffect
    /\ Other(NoOp)
    /\ UNCHANGED <<user, loading, selectedCity, selectedEvent, favorites, storeVars,
                   eventLoads, favLoads>>

\* the duration slider's onValueChange
SetDurationRange(r) ==
    /\ Rendered
    /\ r # durationRange
    /\ durationRange' = r
    /\ UNCHANGED <<events, searchQuery, selectedCategories, costRange>>
    /\ FilterEffect
    /\ Other(NoOp)
    /\ UNCHANGED <<user, loading, selectedCity, selectedEvent, favorites, storeVars,
                   eventLoads, favLoads>>

\* history: none of the four filter values is at its default (all that the
\* snapshot of a Clear Filters click keeps of the filter state)
NoDefaultLeft ==
    /\ searchQuery # <<>>
    /\ selectedCategories # <<>>
    /\ costRange # <<DefaultCostMin, DefaultCostMax>>
    /\ durationRange # <<DefaultDurationMin, DefaultDurationMax>>

\* a Clear Filters handler that leaves the duration slider where it is
ClearFiltersKeepsDuration ==
    /\ Rendered
    /\ Len(filteredEvents) = 0
    /\ searchQuery' = <<>>
    /\ selectedCategories' = <<>>
    /\ costRange' = <<DefaultCostMin, DefaultCostMax>>
    /\ UNCHANGED <<events, durationRange>>
    /\ FilterEffect
    /\ Other([op |-> "cleared", before |-> [Snapshot EXCEPT !.filter = NoDefaultLeft]])
    /\ UNCHANGED <<user, loading, selectedCity, selectedEvent, favorites, storeVars,
                   eventLoads, favLoads>>

\* the Clear Filters button (rendered when filteredEvents.length === 0)
ClearFilters ==
    /\ Rendered
    /\ Len(filteredEvents) = 0
    /\ searchQuery' = <<>>
    /\ selectedCategories' = <<>>
    /\ costRange' = <<DefaultCostMin, DefaultCostMax>>
    /\ durationRange' = <<DefaultDurationMin, DefaultDurationMax>>
    /\ UNCHANGED events
    /\ FilterEffect
    /\ Other([op |-> "cleared", before |-> [Snapshot EXCEPT !.filter = NoDefaultLeft]])
    /\ UNCHANGED <<user, loading, selectedCity, selectedEvent, favorites, storeVars,
                   eventLoads, favLoads>>

(***************************************************************************)
(* Selection and random pick.                                              *)
(***************************************************************************)
\* a card's onClick
SelectEvent(i) ==
    /\ Rendered
    /\ i \in 1..Len(filteredEvents)
    /\ selectedEvent' = filteredEvents[i].id
    /\ Other(NoOp)
    /\ UNCHANGED <<user, loading, selectedCity, events, filteredEvents, favorites,
                   filterVars, storeVars, eventLoads, favLoads>>

\* the dialog's onOpenChange
CloseEvent ==
    /\ Rendered
    /\ selectedEvent # None
    /\ selectedEvent' = None
    /\ Other(NoOp)
    /\ UNCHANGED <<user, loading, selectedCity, events, filteredEvents, favorites,
                   filterVars, storeVars, eventLoads, favLoads>>

\* a surpriseMe that takes the event it picks out of filteredEvents
SurprisePickConsumes(i) ==
    /\ Rendered
    /\ Len(filteredEvents) > 0
    /\ i \in 1..Len(filteredEvents)
    /\ selectedEvent' = filteredEvents[i].id
    /\ filteredEvents' = LET Keep(event) == event # filteredEvents[i]
                         IN SelectSeq(filteredEvents, Keep)
    /\ Other([op |-> "surprisePicked", eventId |-> filteredEvents[i].id])
    /\ UNCHANGED <<user, loading, selectedCity, events, favorites,
                   filterVars, storeVars, eventLoads, favLoads>>

\* surpriseMe with a non-empty filteredEvents: index Math.floor(Math.random() * length)
SurprisePick(i) ==
    /\ Rendered
    /\ Len(filteredEvents) > 0
    /\ i \in 1..Len(filteredEvents)
    /\ selectedEvent' = filteredEvents[i].id
    /\ Other([op |-> "surprisePicked", eventId |-> filteredEvents[i].id])
    /\ UNCHANGED <<user, loading, selectedCity, events, filteredEvents, favorites,
                   filterVars, storeVars, eventLoads, favLoads>>

\* a surpriseMe that lacks the length test and sets filteredEvents[0] of an
\* empty array
SurpriseEmptySelects ==
    /\ Rendered
    /\ ~(Len(filteredEvents) > 0)
    /\ selectedEvent' = None
    /\ Other([op |-> "surpriseEmpty", before |-> Snapshot])
    /\ UNCHANGED <<user, loading, selectedCity, events, filteredEvents,
                   favorites, filterVars, storeVars, eventLoads, favLoads>>

\* surpriseMe with an empty filteredEvents
SurpriseEmpty ==
    /\ Rendered
    /\ ~(Len(filteredEvents) > 0)
    /\ Other([op |-> "surpriseEmpty", before |-> Snapshot])
    /\ UNCHANGED <<user, loading, selectedCity, events, filteredEvents, selectedEvent,
                   favorites, filterVars, storeVars, eventLoads, favLoads>>

(***************************************************************************)
(* Inputs.                                                                 *)
(***************************************************************************)
Kayak == <<"k", "a", "y", "a", "k">>
\* the texts typed into the search box
Queries == {<<>>, Kayak, <<"F", "U">>}
\* slider positions (cost: step 5 up to 100; duration: whole hours up to 5)
CostStops == {0, 10, 50, 100}
DurationStops == {0, 2, 5}
Ranges(stops) == {r \in stops \X stops : r[1] <= r[2]}

\* what the auth provider may report
AuthStates == (Users \cup {None}) \X BOOLEAN

(***************************************************************************)
(* Specifications.                                                         *)
(***************************************************************************)
Next ==
    \/ \E a \in AuthStates : AuthStateChanged(a[1], a[2])
    \/ \E c \in Cities : SetSelectedCity(c)
    \/ \E c \in Cities : LoadEventsDone(c)
    \/ \E c \in Cities : LoadEventsFail(c)
    \/ \E f \in BagToSet(favLoads) : FavListRead(f)
    \/ \E f \in BagToSet(favLoads) : LoadFavoritesDone(f)
    \/ \E f \in BagToSet(favLoads) : LoadFavoritesFail(f)
    \/ \E e \in AllIds : ToggleNoUser(e)
    \/ \E e \in AllIds : ToggleFavorite(e)
    \/ \E t \in BagToSet(toggles) : ToggleListFound(t)
    \/ \E t \in BagToSet(toggles) : ToggleListEmpty(t)
    \/ \E t \in BagToSet(toggles) : ToggleListFail(t)
    \/ \E t \in BagToSet(toggles) : ToggleDeleteExec(t)
    \/ \E t \in BagToSet(toggles) : ToggleDeleteFail(t)
    \/ \E t \in BagToSet(toggles) : ToggleDeleteResp(t)
    \/ \E t \in BagToSet(toggles) : ToggleCreateExec(t)
    \/ \E t \in BagToSet(toggles) : ToggleCreateFail(t)
    \/ \E t \in BagToSet(toggles) : ToggleCreateResp(t)
    \/ \E q \in Queries : SetSearchQuery(q)
    \/ \E c \in Categories(events) : CheckCategory(c)
    \/ \E r \in Ranges(CostStops) : SetCostRange(r)
    \/ \E r \in Ranges(DurationStops) : SetDurationRange(r)
    \/ ClearFilters
    \/ \E i \in 1..Len(filteredEvents) : SelectEvent(i)
    \/ CloseEvent
    \/ \E i \in 1..Len(filteredEvents) : SurprisePick(i)
    \/ SurpriseEmpty

\* the whole application
Spec == Init /\ [][Next]_vars

\* the favorites store: one user signing in and out of a provider that has
\* finished loading, a catalog of one event, and the toggles, with the city
\* and the filter state left at their defaults
InitFavorites ==
    InitApp /\ dbEvents = [c \in Cities |-> IF c = "chicago" THEN <<RawAxe>> ELSE <<RawZoo>>]

NextFavorites ==
    \/ AuthStateChanged("u1", FALSE)
    \/ AuthStateChanged(None, FALSE)
    \/ \E c \in Cities : LoadEventsDone(c)
    \/ \E c \in Cities : LoadEventsFail(c)
    \/ \E f \in BagToSet(favLoads) : FavListRead(f)
    \/ \E f \in BagToSet(favLoads) : LoadFavoritesDone(f)
    \/ \E f \in BagToSet(favLoads) : LoadFavoritesFail(f)
    \/ \E e \in AllIds : ToggleNoUser(e)
    \/ \E e \in AllIds : ToggleFavorite(e)
    \/ \E t \in BagToSet(toggles) : ToggleListFound(t)
    \/ \E t \in BagToSet(toggles) : ToggleListEmpty(t)
    \/ \E t \in BagToSet(toggles) : ToggleListFail(t)
    \/ \E t \in BagToSet(toggles) : ToggleDeleteExec(t)
    \/ \E t \in BagToSet(toggles) : ToggleDeleteFail(t)
    \/ \E t \in BagToSet(toggles) : ToggleDeleteResp(t)
    \/ \E t \in BagToSet(toggles) : ToggleCreateExec(t)
    \/ \E t \in BagToSet(toggles) : ToggleCreateFail(t)
    \/ \E t \in BagToSet(toggles) : ToggleCreateResp(t)

SpecFavorites == InitFavorites /\ [][NextFavorites]_vars

\* the catalog store, the filter state and the selection: one user, both
\* cities, a few search, category and cost inputs, and no toggles
SomeQueries == {<<>>, Kayak}
SomeCostRanges == {<<DefaultCostMin, DefaultCostMax>>, <<0, 50>>}

NextCatalog ==
    \/ \E l \in BOOLEAN : AuthStateChanged("u1", l)
    \/ \E l \in BOOLEAN : AuthStateChanged(None, l)
    \/ \E c \in Cities : SetSelectedCity(c)
    \/ \E c \in Cities : LoadEventsDone(c)
    \/ \E c \in Cities : LoadEventsFail(c)
    \/ \E f \in BagToSet(favLoads) : FavListRead(f)
    \/ \E f \in BagToSet(favLoads) : LoadFavoritesDone(f)
    \/ \E f \in BagToSet(favLoads) : LoadFavoritesFail(f)
    \/ \E q \in SomeQueries : SetSearchQuery(q)
    \/ \E c \in Categories(events) : CheckCategory(c)
    \/ \E r \in SomeCostRanges : SetCostRange(r)
    \/ ClearFilters
    \/ \E i \in 1..Len(filteredEvents) : SelectEvent(i)
    \/ CloseEvent
    \/ \E i \in 1..Len(filteredEvents) : SurprisePick(i)
    \/ SurpriseEmpty

SpecCatalog == Init /\ [][NextCatalog]_vars

\* the filter engine: any selection of the rows as the Chicago catalog, and
\* every filter input
InitFilter == InitApp /\ dbEvents \in AnyDbs

NextFilter ==
    \/ AuthStateChanged("u1", FALSE)
    \/ \E c \in Cities : LoadEventsDone(c)
    \/ \E q \in Queries : SetSearchQuery(q)
    \/ \E c \in Categories(events) : CheckCategory(c)
    \/ \E r \in Ranges(CostStops) : SetCostRange(r)
    \/ \E r \in Ranges(DurationStops) : SetDurationRange(r)
    \/ ClearFilters

SpecFilter == InitFilter /\ [][NextFilter]_vars

\* the visible set beside the favorites and the selection: one user who stays
\* signed in, the favorites loads and the toggles over a catalog of one event,
\* with the cards opened and closed, the random pick, and a search query that
\* hides the catalog's event
NextVisible ==
    \/ AuthStateChanged("u1", FALSE)
    \/ \E c \in Cities : LoadEventsDone(c)
    \/ \E f \in BagToSet(favLoads) : FavListRead(f)
    \/ \E f \in BagToSet(favLoads) : LoadFavoritesDone(f)
    \/ \E f \in BagToSet(favLoads) : LoadFavoritesFail(f)
    \/ \E e \in AllIds : ToggleFavorite(e)
    \/ \E t \in BagToSet(toggles) : ToggleListFound(t)
    \/ \E t \in BagToSet(toggles) : ToggleListEmpty(t)
    \/ \E t \in BagToSet(toggles) : ToggleListFail(t)
    \/ \E t \in BagToSet(toggles) : ToggleDeleteExec(t)
    \/ \E t \in BagToSet(toggles) : ToggleDeleteFail(t)
    \/ \E t \in BagToSet(toggles) : ToggleDeleteResp(t)
    \/ \E t \in BagToSet(toggles) : ToggleCreateExec(t)
    \/ \E t \in BagToSet(toggles) : ToggleCreateFail(t)
    \/ \E t \in BagToSet(toggles) : ToggleCreateResp(t)
    \/ \E q \in SomeQueries : SetSearchQuery(q)
    \/ \E i \in 1..Len(filteredEvents) : SelectEvent(i)
    \/ CloseEvent
    \/ \E i \in 1..Len(filteredEvents) : SurprisePick(i)
    \/ SurpriseEmpty

SpecVisible == InitFavorites /\ [][NextVisible]_vars

(***************************************************************************)
(* Properties.                                                             *)
(***************************************************************************)
\* C1: once another city has been selected, no completion of the load
\* requested for the previous city replaces the catalog store's contents:
\* every events.list response that is stored was requested for the city that
\* is selected when it is stored.
C1_StaleLoadDiscarded == last.op = "eventsLoaded" => last.city = selectedCity

\* a toggle whose persistence write has been issued and has not resolved
Writing(t) == t.pc \in {"create", "created", "delete", "deleted"}

\* C2: toggles are serialized per (userId, eventId): no two toggles of one
\* pair have a write outstanding at once, no two favorite records exist for
\* one pair, and no delete is issued for a record that is already deleted.
C2_TogglesSerialized ==
    /\ \A t1, t2 \in BagToSet(toggles) :
          (Writing(t1) /\ Writing(t2) /\ t1.user = t2.user /\ t1.eventId = t2.eventId)
             => (t1 = t2 /\ CopiesIn(t1, toggles) = 1)
    /\ \A r1, r2 \in favRecords :
          (r1.userId = r2.userId /\ r1.eventId = r2.eventId) => r1 = r2
    /\ ~(last.op = "toggleDone" /\ last.failedAt = "deleteMissing")

\* C3: whenever no favorites load and no toggle is in flight, the favorites
\* set is exactly the set of event ids with a favorite record of the current
\* user (the empty set when nobody is signed in).
C3_FavoritesMirrorStore ==
    (favLoads = EmptyBag /\ toggles = EmptyBag)
       => favorites = (IF user = None THEN {} ELSE FavoritesOf(user))

\* C4: a toggle whose lookup did not reject issues exactly one write: one
\* delete and no create when the id was in the set at invocation, one create
\* and no delete when it was not, also when the lookup finds no record.
C4_ExactlyOneWrite ==
    (last.op = "toggleDone" /\ last.failedAt # "list")
       => IF last.member
          THEN last.deletes = 1 /\ last.creates = 0
          ELSE last.creates = 1 /\ last.deletes = 0

\* C5: when the create or delete of a toggle rejects, the step that handles
\* the rejection leaves the favorites set as it was (for a toggle that ran
\* with nothing else in flight: as it was when the toggle was invoked), the
\* toggle has issued that one write only, and it is no longer pending.
C5_FailedWriteKeepsSet ==
    (last.op = "toggleDone" /\ last.failedAt \in {"create", "delete", "deleteMissing"})
       => /\ favorites = last.pre
          /\ last.iso => favorites = last.favs0
          /\ last.creates + last.deletes = 1
          /\ BagCardinality(toggles) = last.pending - 1

\* a delete rejected for a toggle that ran on its own, the id still in the set
C5_Witness ==
    /\ last.op = "toggleDone" /\ last.failedAt = "delete" /\ last.iso
    /\ last.eventId \in favorites

\* C6: a toggle of an event that is not in the set, run on its own to
\* success, adds the id and issues one create; a second toggle of the event
\* started right after it, run on its own to success, removes the id and
\* issues one delete, and leaves the favorites set and the number of favorite
\* records as they were before the first toggle.
C6_ToggleTwice ==
    /\ (last.op = "toggleDone" /\ last.iso /\ last.ok /\ ~last.member)
          => /\ favorites = last.favs0 \cup {last.eventId}
             /\ last.creates = 1 /\ last.deletes = 0
             /\ Cardinality(favRecords) = last.n0 + 1
    /\ (last.op = "toggleDone" /\ last.iso /\ last.ok /\ last.chain)
          => /\ last.member
             /\ last.eventId \notin favorites
             /\ last.deletes = 1 /\ last.creates = 0
             /\ favorites = last.favs00
             /\ Cardinality(favRecords) = last.n00

\* the second toggle of such a pair has just succeeded
C6_Witness == last.op = "toggleDone" /\ last.iso /\ last.ok /\ last.chain

\* C7: whenever nobody is signed in, the favorites set is empty.
C7_SignedOutEmpty == user = None => favorites = {}

\* C8: when events.list rejects, the catalog store holds afterwards what it
\* held before the rejection was handled.
C8_FailedLoadKeepsCatalog == last.op = "eventsFailed" => events = last.before

\* a load has just failed over a catalog that was loaded before
C8_Witness == last.op = "eventsFailed" /\ events # <<>>

\* a cost or duration that is a number, or text holding a decimal literal
WellFormed(x) ==
    \/ x.t = "number"
    \/ /\ x.t = "string"
       /\ Trim(x.s) # <<>>
       /\ \A i \in 1..Len(Trim(x.s)) : IsDigit(Trim(x.s)[i])

\* C9: an event whose cost or duration is malformed (null, missing, empty or
\* unparsable text) is never in the visible set.
C9_MalformedExcluded ==
    \A i \in 1..Len(filteredEvents) :
        /\ WellFormed(filteredEvents[i].costPerPerson)
        /\ WellFormed(filteredEvents[i].durationHours)

\* a is b with some elements left out, the others in b's order
RECURSIVE IsSubsequence(_, _)
IsSubsequence(a, b) ==
    IF a = <<>> THEN TRUE
    ELSE IF b = <<>> THEN FALSE
    ELSE IF Head(a) = Head(b) THEN IsSubsequence(Tail(a), Tail(b))
    ELSE IsSubsequence(a, Tail(b))

\* C10: the visible set is a subsequence of the catalog: each of its events
\* is in the catalog, none occurs twice, and they are in the catalog's order.
C10_VisibleIsSubsequence ==
    /\ IsSubsequence(filteredEvents, events)
    /\ \A i, j \in 1..Len(filteredEvents) :
          filteredEvents[i].id = filteredEvents[j].id => i = j

\* two events are visible that are not adjacent in a catalog of five
C10_Witness ==
    /\ Len(events) = 5 /\ Len(filteredEvents) = 2
    /\ filteredEvents[1] = events[2] /\ filteredEvents[2] = events[5]

\* the event is one of the visible set
Visible(event) == \E j \in 1..Len(filteredEvents) : filteredEvents[j] = event

\* C11: with an empty search query and no selected category, an event whose
\* cost and duration are numbers is visible exactly when its cost lies within
\* costRange and its duration within durationRange, all four bounds inclusive.
C11_RangesInclusive ==
    (searchQuery = <<>> /\ selectedCategories = <<>>)
       => \A i \in 1..Len(events) :
             (events[i].costPerPerson.t = "number" /\ events[i].durationHours.t = "number")
                => (Visible(events[i])
                      <=> /\ costRange[1] <= events[i].costPerPerson.v
                          /\ events[i].costPerPerson.v <= costRange[2]
                          /\ durationRange[1] <= events[i].durationHours.v
                          /\ events[i].durationHours.v <= durationRange[2])

\* of the events costing 10 for 2 hours and 90 for 1 hour, the ranges [10,50]
\* and [0,2] keep the first only, its cost and its duration each on a bound
C11_Witness ==
    /\ searchQuery = <<>> /\ selectedCategories = <<>>
    /\ events = FormatEvents(<<RawAxe, RawBoat>>)
    /\ costRange = <<10, 50>> /\ durationRange = <<0, 2>>
    /\ filteredEvents = <<FormatEvent(RawAxe)>>

\* the ranges that differ from range in one bound, widened
Widened(range, stops) ==
    {r \in Ranges(stops) : \/ r[1] < range[1] /\ r[2] = range[2]
                           \/ r[1] = range[1] /\ r[2] > range[2]}

\* C12: widening one bound of costRange or of durationRange (a smaller min or
\* a larger max), everything else kept, removes no event from the visible set.
C12_WideningMonotone ==
    /\ \A r \in Widened(costRange, CostStops) :
          \A i \in 1..Len(filteredEvents) :
              ArrayIncludes(FilterEvents(events, searchQuery, selectedCategories,
                                         r, durationRange), filteredEvents[i])
    /\ \A r \in Widened(durationRange, DurationStops) :
          \A i \in 1..Len(filteredEvents) :
              ArrayIncludes(FilterEvents(events, searchQuery, selectedCategories,
                                         costRange, r), filteredEvents[i])

\* some event is visible, and a wider duration range shows more events
C12_Witness ==
    /\ Len(filteredEvents) > 0
    /\ \E r \in Widened(durationRange, DurationStops) :
          Len(FilterEvents(events, searchQuery, selectedCategories, costRange, r))
             > Len(filteredEvents)

\* the text, cost and duration predicates of filterEvents, for one event
PassesOthers(event) ==
    /\ searchQuery # <<>> => MatchesSearch(event, searchQuery)
    /\ PassesCost(event, costRange)
    /\ PassesDuration(event, durationRange)

\* C13: with no selected category the visible events are those passing the
\* text, cost and duration predicates; with a selection, those that pass them
\* and whose category is one of the selected ones.
C13_CategoryPredicate ==
    \A i \in 1..Len(events) :
        Visible(events[i])
           <=> /\ PassesOthers(events[i])
               /\ \/ selectedCategories = <<>>
                  \/ events[i].category
                        \in {selectedCategories[k] : k \in 1..Len(selectedCategories)}

\* a selection of two categories shows one event and hides another that the
\* other predicates keep
C13_Witness ==
    /\ Len(selectedCategories) = 2
    /\ Len(filteredEvents) > 0
    /\ \E i \in 1..Len(events) : PassesOthers(events[i]) /\ ~Visible(events[i])

\* q occurs in s as a run of adjacent characters, letter case disregarded
OccursIn(q, s) ==
    \E k \in 0..(Len(s) - Len(q)) :
        \A j \in 1..Len(q) : LowerChar(s[k + j]) = LowerChar(q[j])

\* the category, cost and duration predicates of filterEvents, for one event
PassesNonText(event) ==
    /\ Len(selectedCategories) > 0 => ArrayIncludes(selectedCategories, event.category)
    /\ PassesCost(event, costRange)
    /\ PassesDuration(event, durationRange)

\* C14: with a non-empty search query an event passes the text predicate
\* exactly when the lower-cased query is a contiguous part of its lower-cased
\* name, description or category; with an empty query every event passes.
C14_TextPredicate ==
    \A i \in 1..Len(events) :
        Visible(events[i])
           <=> /\ PassesNonText(events[i])
               /\ \/ searchQuery = <<>>
                  \/ OccursIn(searchQuery, events[i].name)
                  \/ OccursIn(searchQuery, events[i].description)
                  \/ OccursIn(searchQuery, events[i].category)

\* the query "kayak" shows the event described as "Kayaking" and hides one
\* that the other predicates keep
C14_Witness ==
    /\ searchQuery = Kayak
    /\ Visible(FormatEvent(RawBoat))
    /\ \E i \in 1..Len(events) : PassesNonText(events[i]) /\ ~Visible(events[i])

\* C15: surpriseMe called while the visible set is empty changes nothing: the
\* open event, the catalog, the favorites set, the filter state and the
\* visible set are afterwards what they were.
C15_SurpriseEmptyNoOp ==
    last.op = "surpriseEmpty"
       => /\ selectedEvent = last.before.selectedEvent
          /\ events = last.before.events
          /\ favorites = last.before.favorites
          /\ filterVars = last.before.filter
          /\ filteredEvents = last.before.filteredEvents

\* surpriseMe has just run over an empty visible set of a loaded catalog,
\* with an event open
C15_Witness ==
    /\ last.op = "surpriseEmpty"
    /\ selectedEvent # None
    /\ events # <<>>

\* the elements of a sequence
RangeOf(s) == {s[i] : i \in 1..Len(s)}

AllCategories == {Fun, Tour, Food, Park}

\* C17: the categories offered as checkboxes are exactly the distinct
\* categories of the events of the catalog, whatever the filter state is and
\* whichever catalog has been loaded.
C17_CategoryUniverse ==
    Rendered
       => \A c \in AllCategories :
             (ENABLED CheckCategory(c)) <=> (\E e \in RangeOf(events) : e.category = c)

\* the Minneapolis catalog has replaced the Chicago one and the filter state
\* hides its event: the visible set has no category, the catalog has one
C17_Witness ==
    /\ Rendered
    /\ selectedCity = "minneapolis"
    /\ RangeOf(events) = {FormatEvent(RawZoo)}
    /\ filteredEvents = <<>>
    /\ searchQuery # <<>>

\* C18: the Clear Filters handler leaves the filter state at its defaults,
\* an empty query, no selected category, costRange [0,100] and durationRange
\* [0,5], whatever it was, and leaves the catalog, the favorites set and the
\* open event as they were.
C18_ClearResets ==
    last.op = "cleared"
       => /\ searchQuery = <<>>
          /\ selectedCategories = <<>>
          /\ costRange = <<0, 100>>
          /\ durationRange = <<0, 5>>
          /\ events = last.before.events
          /\ favorites = last.before.favorites
          /\ selectedEvent = last.before.selectedEvent

\* the filters have just been cleared from a state in which the query, the
\* selected categories and both ranges differed from their defaults
C18_Witness ==
    /\ last.op = "cleared"
    /\ events # <<>>
    /\ last.before.filter

\* C19: the visible set is filterEvents of the catalog and the filter state
\* and of nothing else: a step that changes the favorites set or the open
\* event leaves the visible set as it is, and a step in which the filter is
\* evaluated anew changes neither the favorites set nor the open event, and
\* not the catalog and the filter state at once.
C19_VisibleFrame ==
    [][/\ filteredEvents' = FilterEvents(events', searchQuery', selectedCategories',
                                         costRange', durationRange')
       /\ (favorites' # favorites \/ selectedEvent' # selectedEvent)
             => UNCHANGED <<filteredEvents, events, filterVars>>
       /\ (filteredEvents' # filteredEvents)
             => /\ UNCHANGED <<favorites, selectedEvent>>
                /\ events' = events \/ filterVars' = filterVars]_vars

\* a toggle has just changed the favorites set while an event was open and
\* the search query hid every event
C19_Witness ==
    /\ last.op = "toggleDone" /\ last.ok
    /\ favorites # last.pre
    /\ selectedEvent # None
    /\ events # <<>> /\ filteredEvents = <<>>

\* C20: every selected category is a category of some event of the current
\* catalog: no category selected under a previous catalog, and absent from
\* the current one, stays selected.
C20_SelectedInUniverse ==
    \A k \in 1..Len(selectedCategories) :
        \E e \in RangeOf(events) : e.category = selectedCategories[k]

\* C21: toggleFavorite called while nobody is signed in does nothing: no
\* list, create or delete is issued (no call is suspended at the store that
\* was not before, and the favorite records are as they were), and the
\* favorites set is as it was.
C21_ToggleSignedOutNoOp ==
    last.op = "toggleNoUser"
       => /\ favorites = last.before
          /\ BagCardinality(toggles) = last.pending
          /\ favRecords = last.records

\* toggleFavorite has just been called with nobody signed in, for an event
\* that the signed-out user's favorites set and the store still hold
C21_Witness ==
    /\ last.op = "toggleNoUser"
    /\ user = None
    /\ last.eventId \in favorites
    /\ favRecords # {}

\* C22: every step in which the load effect issues events.list or
\* favorites.list is a step after which a user is signed in and the auth
\* state is not loading: no load is issued while there is no user or while
\* the auth provider is still loading.
C22_LoadsOnlySignedIn ==
    [][(\/ ~(eventLoads' \subseteq eventLoads)
        \/ BagCardinality(favLoads') > BagCardinality(favLoads))
          => (user' # None /\ ~loading')]_vars

\* both lists have been issued for Minneapolis by the effect that follows a
\* city change, the Chicago catalog being loaded
C22_Witness ==
    /\ Rendered
    /\ eventLoads = {"minneapolis"}
    /\ favLoads # EmptyBag
    /\ events # <<>>
    /\ last = NoOp

====
